---- MODULE Spec2Model ----
(***************************************************************************)
(* Huffman encoder (src/encoder.c) and decoder (src/decoder.c).            *)
(*                                                                         *)
(* Files are sequences of bytes 0..255.  C strings are sequences of bytes  *)
(* cut at the first NUL.  Tree nodes live in arenas (sequences of records) *)
(* and a pointer is an index into the arena, 0 standing for NULL.          *)
(***************************************************************************)
EXTENDS Integers, Sequences, FiniteSets

\* ------------------------------------------------------------------ bounds

\* Longest input file considered.
MaxLen == 4

\* Longest input file that repeats one byte value.
MaxRun == 17

\* Longest input file whose bytes are in ascending order.
MaxSortedLen == 7

\* The byte values input files are drawn from: NUL, newline, double-quote,
\* backslash, a plain letter and a byte above 127.
Alphabet == {0, 10, 34, 92, 97, 255}

\* What cb_fn, enc_fn and out_fn hold before the programs run.
StaleFile == <<255>>

\* ------------------------------------------------------- character codes

NUL == 0
TAB == 9
NEWLINE == 10
CR == 13
QUOTE == 34
COMMA == 44
CHAR0 == 48
CHAR1 == 49
BACKSLASH == 92
CHARn == 110
CHARr == 114
CHARt == 116

\* The characters printed by one "%.15f" conversion (sign, digits and a
\* dot: none of them a quote, a comma, a NUL or a newline), which one "%lf"
\* conversion consumes whole.
FLOATFIELD == 256

NULL == 0

VARIABLES
    \* ---- encoder (src/encoder.c main)
    pc,             \* position of the encoder in main
    in_file,        \* contents of in_fn
    freq,           \* freq[256]: symbol -> count, absent symbols are 0
    total_count,
    nodes,          \* arena of the malloc'ed Node records
    leaf_nodes,     \* leaf_nodes[256]: symbol -> Node*, absent symbols are NULL
    heap,           \* heap[1..heapSize]
    i,              \* loop index of the leaf insertion loop
    a, b,           \* the two nodes popped by the merge loop
    root,
    node_list,      \* the sorted codebook rows (Node*)
    cb_file,        \* contents of cb_fn
    enc_file,       \* contents of enc_fn
    fin_pos,        \* read position of fin in the packing pass
    out_byte, bit_count,
    enc_exit,       \* exit code of the encoder, -1 while running
    enc_open_failed,\* some fopen of the encoder returned NULL
    \* ---- decoder (src/decoder.c main)
    dpc,            \* position of the decoder in main
    dnodes,         \* arena of the DNode records, dnodes[DROOT] is root
    fcb_pos,        \* read position of fcb
    rows_parsed,    \* codebook lines whose sscanf returned 4
    expected_symbols,
    num_decoded_symbols,
    fenc_pos,       \* read position of fenc
    byte, bitidx,   \* current byte and the inner loop's b
    cur,
    bit_position,
    out_file,       \* contents of out_fn
    status_ok,
    dec_result,     \* how the decoder ended
    dec_exit,       \* exit code of the decoder, -1 while running
    tampered        \* enc_file is no longer what the encoder wrote

encVars == <<pc, in_file, freq, total_count, nodes, leaf_nodes, heap, i, a, b,
             root, node_list, cb_file, fin_pos, out_byte, bit_count,
             enc_exit, enc_open_failed>>
decVars == <<dpc, dnodes, fcb_pos, rows_parsed, expected_symbols,
             num_decoded_symbols, fenc_pos, byte, bitidx, cur, bit_position,
             out_file, status_ok, dec_result, dec_exit>>
vars == <<encVars, decVars, enc_file, tampered>>

\* ---------------------------------------------------------------- helpers

SeqsUpTo(S, n) == UNION {[1..k -> S] : k \in 0..n}

Range(s) == {s[k] : k \in DOMAIN s}

Swap(h, x, y) == [h EXCEPT ![x] = h[y], ![y] = h[x]]

RECURSIVE Concat(_)
Concat(ss) == IF ss = <<>> THEN <<>> ELSE Head(ss) \o Concat(Tail(ss))

heapSize == Len(heap)

\* A file opened without being truncated.
fopen_keep(old) == old

\* The contents of a file just opened with fopen(fn, "w") or "wb".
fopen_w(old) == <<>>

\* The sequences over S of length at most n whose elements ascend.
RECURSIVE SortedSeqs(_, _)
SortedSeqs(S, n) ==
    IF n = 0 THEN {<<>>}
    ELSE LET P == SortedSeqs(S, n - 1)
         IN  P \cup UNION {{Append(t, x) :
                                x \in {y \in S : \A k \in DOMAIN t : t[k] <= y}} :
                            t \in {u \in P : Len(u) = n - 1}}

\* The input files: every short sequence, every longer one in ascending
\* order (one per frequency table), and every run of one byte value.
Inputs ==
    SeqsUpTo(Alphabet, MaxLen)
    \cup SortedSeqs(Alphabet, MaxSortedLen)
    \cup {[k \in 1..n |-> s] : n \in 1..MaxRun, s \in Alphabet}

\* --------------------------------------------------------------- min-heap

Count(nd, n) == nd[n].count

RECURSIVE SiftUp(_, _, _)
SiftUp(nd, h, k) ==
    IF k > 1 /\ Count(nd, h[k]) < Count(nd, h[k \div 2])
    THEN SiftUp(nd, Swap(h, k, k \div 2), k \div 2)
    ELSE h

\* heap_push whose sift-up loop compares with <= instead of <.
RECURSIVE SiftUpLe(_, _, _)
SiftUpLe(nd, h, k) ==
    IF k > 1 /\ Count(nd, h[k]) <= Count(nd, h[k \div 2])
    THEN SiftUpLe(nd, Swap(h, k, k \div 2), k \div 2)
    ELSE h

heap_push_le(nd, h, n) == SiftUpLe(nd, Append(h, n), Len(h) + 1)

\* heap_push without the sift-up loop.
heap_push_nosift(nd, h, n) == Append(h, n)

heap_push(nd, h, n) == SiftUp(nd, Append(h, n), Len(h) + 1)

RECURSIVE SiftDown(_, _, _)
SiftDown(nd, h, k) ==
    LET left  == k * 2
        right == k * 2 + 1
        m1 == IF left <= Len(h) /\ Count(nd, h[left]) < Count(nd, h[k])
              THEN left ELSE k
        min_i == IF right <= Len(h) /\ Count(nd, h[right]) < Count(nd, h[m1])
                 THEN right ELSE m1
    IN  IF min_i = k THEN h ELSE SiftDown(nd, Swap(h, k, min_i), min_i)

\* The node heap_pop returns.
heap_pop_node(h) == IF Len(h) = 0 THEN NULL ELSE h[1]

\* The heap heap_pop leaves.
heap_pop_rest(nd, h) ==
    IF Len(h) = 0 THEN h
    ELSE IF Len(h) = 1 THEN <<>>
    ELSE SiftDown(nd, [SubSeq(h, 1, Len(h) - 1) EXCEPT ![1] = h[Len(h)]], 1)

\* ---------------------------------------------------------- generate_codes

IsLeaf(nd, n) == nd[n].left = NULL /\ nd[n].right = NULL

\* generate_codes with right_prefix built like left_prefix ("%s0").
RECURSIVE CodeAssignmentsSameBit(_, _, _)
CodeAssignmentsSameBit(nd, n, prefix) ==
    IF n = NULL THEN {}
    ELSE IF IsLeaf(nd, n)
         THEN {<<n, IF prefix = <<>> THEN <<CHAR0>> ELSE prefix>>}
         ELSE CodeAssignmentsSameBit(nd, nd[n].left, Append(prefix, CHAR0))
              \cup CodeAssignmentsSameBit(nd, nd[n].right, Append(prefix, CHAR0))

\* The set of <<leaf, code>> assignments generate_codes(n, prefix) makes.
RECURSIVE CodeAssignments(_, _, _)
CodeAssignments(nd, n, prefix) ==
    IF n = NULL THEN {}
    ELSE IF IsLeaf(nd, n)
         THEN {<<n, IF prefix = <<>> THEN <<CHAR0>> ELSE prefix>>}
         ELSE CodeAssignments(nd, nd[n].left, Append(prefix, CHAR0))
              \cup CodeAssignments(nd, nd[n].right, Append(prefix, CHAR1))

\* generate_codes without the special case of a root that is a leaf.
RECURSIVE CodeAssignmentsPlain(_, _, _)
CodeAssignmentsPlain(nd, n, prefix) ==
    IF n = NULL THEN {}
    ELSE IF IsLeaf(nd, n) THEN {<<n, prefix>>}
         ELSE CodeAssignmentsPlain(nd, nd[n].left, Append(prefix, CHAR0))
              \cup CodeAssignmentsPlain(nd, nd[n].right, Append(prefix, CHAR1))

generate_codes_plain(nd, r) ==
    LET asg == CodeAssignmentsPlain(nd, r, <<>>)
    IN  [n \in DOMAIN nd |->
            IF \E p \in asg : p[1] = n
            THEN [nd[n] EXCEPT !.code = (CHOOSE p \in asg : p[1] = n)[2]]
            ELSE nd[n]]

generate_codes(nd, r) ==
    LET asg == CodeAssignments(nd, r, <<>>)
    IN  [n \in DOMAIN nd |->
            IF \E p \in asg : p[1] = n
            THEN [nd[n] EXCEPT !.code = (CHOOSE p \in asg : p[1] = n)[2]]
            ELSE nd[n]]

\* ------------------------------------------------------- codebook writing

\* compare_nodes(x, y) < 0
NodeBefore(nd, x, y) ==
    \/ nd[x].count < nd[y].count
    \/ nd[x].count = nd[y].count /\ nd[x].symbol < nd[y].symbol

\* qsort(node_list, ..., compare_nodes): symbols are distinct, so the order
\* is total and the result unique.
RECURSIVE SortNodes(_, _)
SortNodes(nd, S) ==
    IF S = {} THEN <<>>
    ELSE LET m == CHOOSE x \in S : \A y \in S \ {x} : NodeBefore(nd, x, y)
         IN  <<m>> \o SortNodes(nd, S \ {m})

print_symbol(s) ==
    IF s = NEWLINE THEN <<QUOTE, BACKSLASH, CHARn, QUOTE>>
    ELSE IF s = TAB THEN <<QUOTE, BACKSLASH, CHARt, QUOTE>>
    ELSE IF s = CR THEN <<QUOTE, BACKSLASH, CHARr, QUOTE>>
    ELSE IF s = QUOTE THEN <<QUOTE, BACKSLASH, QUOTE, QUOTE>>
    ELSE IF s = BACKSLASH THEN <<QUOTE, BACKSLASH, BACKSLASH, QUOTE>>
    ELSE <<QUOTE, s, QUOTE>>

\* "%ld" of a non-negative long.
RECURSIVE FormatLong(_)
FormatLong(n) ==
    IF n < 10 THEN <<CHAR0 + n>>
    ELSE Append(FormatLong(n \div 10), CHAR0 + (n % 10))

\* print_symbol followed by ",%ld,%.15f,\"%s\",%.15f\n"
CodebookRow(nd, n) ==
    print_symbol(nd[n].symbol)
    \o <<COMMA>> \o FormatLong(nd[n].count)
    \o <<COMMA, FLOATFIELD, COMMA, QUOTE>> \o nd[n].code
    \o <<QUOTE, COMMA, FLOATFIELD, NEWLINE>>

WriteCodebook(nd, list) ==
    Concat([k \in 1..Len(list) |-> CodebookRow(nd, list[k])])

\* -------------------------------------------------------------- bit packing

\* The inner loop over one code: the packer state after appending its bits.
RECURSIVE PackCode(_, _)
PackCode(st, code) ==
    IF code = <<>> THEN st
    ELSE LET ob == ((st.out_byte * 2) % 256) + (Head(code) - CHAR0)
             bc == st.bit_count + 1
         IN  IF bc = 8
             THEN PackCode([out_byte |-> 0, bit_count |-> 0,
                            written |-> Append(st.written, ob)], Tail(code))
             ELSE PackCode([out_byte |-> ob, bit_count |-> bc,
                            written |-> st.written], Tail(code))

\* The last byte written without the padding shift.
ShiftLeftNone(x, n) == x

RECURSIVE ShiftLeft(_, _)
ShiftLeft(x, n) == IF n = 0 THEN x ELSE ShiftLeft((x * 2) % 256, n - 1)

\* ------------------------------------------------------ decoder: C strings

\* char line[512]
LINE_SIZE == 512

\* line[k] of a buffer holding the bytes buf followed by the terminating NUL.
At(buf, k) == IF k < Len(buf) THEN buf[k + 1] ELSE NUL

\* A byte stored in a (signed) char, and a char written by fputc.
ToChar(c) == IF c >= 128 THEN c - 256 ELSE c
fputc(c) == c % 256

\* Number of characters fgets(line, sizeof(line), fcb) reads at position pos:
\* through the first newline, at most LINE_SIZE - 1.
RECURSIVE fgets_len(_, _, _)
fgets_len(file, pos, n) ==
    IF pos + n >= Len(file) \/ n >= LINE_SIZE - 1 THEN n
    ELSE IF file[pos + n + 1] = NEWLINE THEN n + 1
    ELSE fgets_len(file, pos, n + 1)

fgets(file, pos) == SubSeq(file, pos + 1, pos + fgets_len(file, pos, 0))

\* strchr(line + k, ch): the index of the first ch before the string's NUL,
\* -1 for a NULL result.
RECURSIVE strchr(_, _, _)
strchr(line, k, ch) ==
    IF At(line, k) = ch THEN k
    ELSE IF At(line, k) = NUL THEN -1
    ELSE strchr(line, k + 1, ch)

parse_symbol(line) ==
    IF At(line, 0) # QUOTE THEN 0
    ELSE IF At(line, 1) = BACKSLASH
         THEN IF At(line, 2) = CHARn THEN NEWLINE
              ELSE IF At(line, 2) = CHARt THEN TAB
              ELSE IF At(line, 2) = CHARr THEN CR
              ELSE IF At(line, 2) = CHAR0 THEN NUL
              ELSE ToChar(At(line, 2))
         ELSE ToChar(At(line, 1))

IsSpace(c) == c \in {9, 10, 11, 12, 13, 32}
IsDigit(c) == c \in CHAR0..(CHAR0 + 9)

RECURSIVE SkipSpace(_, _)
SkipSpace(line, k) == IF IsSpace(At(line, k)) THEN SkipSpace(line, k + 1) ELSE k

RECURSIVE DigitsEnd(_, _)
DigitsEnd(line, k) == IF IsDigit(At(line, k)) THEN DigitsEnd(line, k + 1) ELSE k

RECURSIVE DigitsValue(_, _, _, _)
DigitsValue(line, k, e, acc) ==
    IF k = e THEN acc
    ELSE DigitsValue(line, k + 1, e, acc * 10 + (At(line, k) - CHAR0))

\* End of the run "%255[01]" matches from k on, n characters already taken.
RECURSIVE CodeEnd(_, _, _)
CodeEnd(line, k, n) ==
    IF n < 255 /\ At(line, k) \in {CHAR0, CHAR1}
    THEN CodeEnd(line, k + 1, n + 1)
    ELSE k

ScanResult(n, cnt, code) == [n |-> n, count |-> cnt, code |-> code]

\* sscanf(line + p, "%ld,%lf,\"%255[01]\",%lf", &count, &prob, code, &self_info):
\* the number of conversions made, and the count and code it stored.
sscanf(line, p) ==
    LET p1 == SkipSpace(line, p)
        neg == At(line, p1) = 45
        p2 == IF At(line, p1) \in {43, 45} THEN p1 + 1 ELSE p1
        p3 == DigitsEnd(line, p2)
        mag == DigitsValue(line, p2, p3, 0)
        cnt == IF neg THEN 0 - mag ELSE mag
        p4 == SkipSpace(line, p3 + 1)
        p5 == CodeEnd(line, p4 + 3, 0)
        code == [k \in 1..(p5 - (p4 + 3)) |-> At(line, p4 + 2 + k)]
    IN  IF p3 = p2 THEN ScanResult(0, 0, <<>>)
        ELSE IF At(line, p3) # COMMA THEN ScanResult(1, cnt, <<>>)
        ELSE IF At(line, p4) # FLOATFIELD THEN ScanResult(1, cnt, <<>>)
        ELSE IF At(line, p4 + 1) # COMMA \/ At(line, p4 + 2) # QUOTE
             THEN ScanResult(2, cnt, <<>>)
        ELSE IF p5 = p4 + 3 THEN ScanResult(2, cnt, <<>>)
        ELSE IF At(line, p5) # QUOTE \/ At(line, p5 + 1) # COMMA
             THEN ScanResult(3, cnt, code)
        ELSE IF At(line, SkipSpace(line, p5 + 2)) # FLOATFIELD
             THEN ScanResult(3, cnt, code)
        ELSE ScanResult(4, cnt, code)

\* ------------------------------------------------------ decoder: the tree

\* DNode* root = create_node(); is the arena's first record.
DROOT == 1

create_node == [symbol |-> 0, isLeaf |-> 0, left |-> NULL, right |-> NULL]

RECURSIVE InsertFrom(_, _, _, _)
InsertFrom(dn, c, code, symbol) ==
    IF code = <<>> THEN [dn EXCEPT ![c].isLeaf = 1, ![c].symbol = symbol]
    ELSE IF Head(code) = CHAR0
         THEN IF dn[c].left = NULL
              THEN InsertFrom(Append([dn EXCEPT ![c].left = Len(dn) + 1], create_node),
                              Len(dn) + 1, Tail(code), symbol)
              ELSE InsertFrom(dn, dn[c].left, Tail(code), symbol)
    ELSE IF Head(code) = CHAR1
         THEN IF dn[c].right = NULL
              THEN InsertFrom(Append([dn EXCEPT ![c].right = Len(dn) + 1], create_node),
                              Len(dn) + 1, Tail(code), symbol)
              ELSE InsertFrom(dn, dn[c].right, Tail(code), symbol)
    ELSE InsertFrom(dn, c, Tail(code), symbol)

insert_code(dn, code, symbol) == InsertFrom(dn, DROOT, code, symbol)

\* (byte >> k) & 1
RECURSIVE ShiftRight(_, _)
ShiftRight(x, n) == IF n = 0 THEN x ELSE ShiftRight(x \div 2, n - 1)

BitOf(x, k) == ShiftRight(x, k) % 2

\* The file with bit k (1-based, MSB-first) inverted.
FlipBit(file, k) ==
    LET idx == ((k - 1) \div 8) + 1
        pos == 7 - ((k - 1) % 8)
        w == ShiftLeft(1, pos)
    IN  [file EXCEPT ![idx] = IF BitOf(file[idx], pos) = 1
                              THEN file[idx] - w ELSE file[idx] + w]


\* ------------------------------------------------------- encoder: main

Init ==
    /\ in_file \in Inputs
    /\ pc = "enc_start"
    /\ freq = <<>>
    /\ total_count = 0
    /\ nodes = <<>>
    /\ leaf_nodes = <<>>
    /\ heap = <<>>
    /\ i = 0
    /\ a = NULL
    /\ b = NULL
    /\ root = NULL
    /\ node_list = <<>>
    /\ cb_file = StaleFile
    /\ enc_file = StaleFile
    /\ fin_pos = 0
    /\ out_byte = 0
    /\ bit_count = 0
    /\ enc_exit = -1
    /\ enc_open_failed = FALSE
    /\ dpc = "dec_start"
    /\ dnodes = <<>>
    /\ fcb_pos = 0
    /\ rows_parsed = 0
    /\ expected_symbols = 0
    /\ num_decoded_symbols = 0
    /\ fenc_pos = 0
    /\ byte = 0
    /\ bitidx = 7
    /\ cur = NULL
    /\ bit_position = 0
    /\ out_file = StaleFile
    /\ status_ok = 1
    /\ dec_result = "running"
    /\ dec_exit = -1
    /\ tampered = FALSE

\* fopen(in_fn) and the counting loop.
EncCountInput ==
    /\ pc = "enc_start"
    /\ \E ok \in BOOLEAN :
        IF ok
        THEN /\ freq' = [s \in Range(in_file) |->
                            Cardinality({k \in DOMAIN in_file : in_file[k] = s})]
             /\ total_count' = Len(in_file)
             /\ pc' = IF Len(in_file) = 0 THEN "enc_empty" ELSE "enc_leaves"
             /\ UNCHANGED <<enc_exit, enc_open_failed>>
        ELSE /\ enc_exit' = 1
             /\ enc_open_failed' = TRUE
             /\ pc' = "enc_done"
             /\ UNCHANGED <<freq, total_count>>
    /\ UNCHANGED <<in_file, nodes, leaf_nodes, heap, i, a, b, root, node_list,
                   cb_file, enc_file, fin_pos, out_byte, bit_count, tampered>>
    /\ UNCHANGED decVars

\* total_count == 0: both output files are created empty when they open.
EncEmptyInput ==
    /\ pc = "enc_empty"
    /\ \E ok_cb \in BOOLEAN, ok_enc \in BOOLEAN :
        /\ cb_file' = IF ok_cb THEN fopen_w(cb_file) ELSE cb_file
        /\ enc_file' = IF ok_enc THEN fopen_w(enc_file) ELSE enc_file
        /\ enc_open_failed' = (~ok_cb \/ ~ok_enc)
    /\ enc_exit' = 0
    /\ pc' = "enc_done"
    /\ UNCHANGED <<in_file, freq, total_count, nodes, leaf_nodes, heap, i, a, b,
                   root, node_list, fin_pos, out_byte, bit_count, tampered>>
    /\ UNCHANGED decVars

NewLeaf(s, cnt) ==
    [symbol |-> s, count |-> cnt, left |-> NULL, right |-> NULL, code |-> <<>>]

NewParent(nd, x, y) ==
    [symbol |-> 0, count |-> nd[x].count + nd[y].count,
     left |-> x, right |-> y, code |-> <<>>]

\* One iteration of the leaf loop that finds freq[i] > 0.
EncPushLeaf ==
    /\ pc = "enc_leaves"
    /\ \E s \in DOMAIN freq :
        /\ s >= i
        /\ \A t \in DOMAIN freq : t >= i => s <= t
        /\ LET n == Len(nodes) + 1
               nd == Append(nodes, NewLeaf(s, freq[s]))
           IN  /\ nodes' = nd
               /\ heap' = heap_push(nd, heap, n)
               /\ leaf_nodes' = [x \in DOMAIN leaf_nodes \cup {s} |->
                                    IF x = s THEN n ELSE leaf_nodes[x]]
               /\ i' = s + 1
    /\ UNCHANGED <<pc, in_file, freq, total_count, a, b, root, node_list,
                   cb_file, enc_file, fin_pos, out_byte, bit_count, enc_exit,
                   enc_open_failed, tampered>>
    /\ UNCHANGED decVars

\* The leaf loop runs out: no symbol from i on occurs.
EncLeavesDone ==
    /\ pc = "enc_leaves"
    /\ \A s \in DOMAIN freq : s < i
    /\ i' = 256
    /\ pc' = "enc_merge"
    /\ UNCHANGED <<in_file, freq, total_count, nodes, leaf_nodes, heap, a, b,
                   root, node_list, cb_file, enc_file, fin_pos, out_byte,
                   bit_count, enc_exit, enc_open_failed, tampered>>
    /\ UNCHANGED decVars

\* Merge loop: Node* a = heap_pop();
EncPopA ==
    /\ pc = "enc_merge"
    /\ heapSize > 1
    /\ a' = heap_pop_node(heap)
    /\ heap' = heap_pop_rest(nodes, heap)
    /\ pc' = "enc_pop_b"
    /\ UNCHANGED <<in_file, freq, total_count, nodes, leaf_nodes, i, b, root,
                   node_list, cb_file, enc_file, fin_pos, out_byte, bit_count,
                   enc_exit, enc_open_failed, tampered>>
    /\ UNCHANGED decVars

\* Merge loop: Node* b = heap_pop();
EncPopB ==
    /\ pc = "enc_pop_b"
    /\ b' = heap_pop_node(heap)
    /\ heap' = heap_pop_rest(nodes, heap)
    /\ pc' = "enc_parent"
    /\ UNCHANGED <<in_file, freq, total_count, nodes, leaf_nodes, i, a, root,
                   node_list, cb_file, enc_file, fin_pos, out_byte, bit_count,
                   enc_exit, enc_open_failed, tampered>>
    /\ UNCHANGED decVars

\* Merge loop: build the parent and heap_push it.
EncPushParent ==
    /\ pc = "enc_parent"
    /\ LET n == Len(nodes) + 1
           nd == Append(nodes, NewParent(nodes, a, b))
       IN  /\ nodes' = nd
           /\ heap' = heap_push(nd, heap, n)
    /\ pc' = "enc_merge"
    /\ UNCHANGED <<in_file, freq, total_count, leaf_nodes, i, a, b, root,
                   node_list, cb_file, enc_file, fin_pos, out_byte, bit_count,
                   enc_exit, enc_open_failed, tampered>>
    /\ UNCHANGED decVars

\* Node* root = heap_pop();
EncPopRoot ==
    /\ pc = "enc_merge"
    /\ heapSize <= 1
    /\ root' = heap_pop_node(heap)
    /\ heap' = heap_pop_rest(nodes, heap)
    /\ pc' = "enc_codes"
    /\ UNCHANGED <<in_file, freq, total_count, nodes, leaf_nodes, i, a, b,
                   node_list, cb_file, enc_file, fin_pos, out_byte, bit_count,
                   enc_exit, enc_open_failed, tampered>>
    /\ UNCHANGED decVars

\* generate_codes(root, ""), then node_list is filled and sorted.
EncGenerateCodes ==
    /\ pc = "enc_codes"
    /\ nodes' = generate_codes(nodes, root)
    /\ node_list' = SortNodes(nodes', Range(leaf_nodes))
    /\ pc' = "enc_open_cb"
    /\ UNCHANGED <<in_file, freq, total_count, leaf_nodes, heap, i, a, b, root,
                   cb_file, enc_file, fin_pos, out_byte, bit_count, enc_exit,
                   enc_open_failed, tampered>>
    /\ UNCHANGED decVars

\* fopen(cb_fn, "w") and the row loop.
EncWriteCodebook ==
    /\ pc = "enc_open_cb"
    /\ \E ok \in BOOLEAN :
        IF ok
        THEN /\ cb_file' = fopen_w(cb_file) \o WriteCodebook(nodes, node_list)
             /\ pc' = "enc_reopen"
             /\ UNCHANGED <<enc_exit, enc_open_failed>>
        ELSE /\ enc_exit' = 1
             /\ enc_open_failed' = TRUE
             /\ pc' = "enc_done"
             /\ UNCHANGED cb_file
    /\ UNCHANGED <<in_file, freq, total_count, nodes, leaf_nodes, heap, i, a, b,
                   root, node_list, enc_file, fin_pos, out_byte, bit_count,
                   tampered>>
    /\ UNCHANGED decVars

\* fin = fopen(in_fn, "rb") for the packing pass.
EncReopenInput ==
    /\ pc = "enc_reopen"
    /\ \E ok \in BOOLEAN :
        IF ok
        THEN /\ pc' = "enc_open_enc"
             /\ UNCHANGED <<enc_exit, enc_open_failed>>
        ELSE /\ enc_exit' = 1
             /\ enc_open_failed' = TRUE
             /\ pc' = "enc_done"
    /\ fin_pos' = 0
    /\ UNCHANGED <<in_file, freq, total_count, nodes, leaf_nodes, heap, i, a, b,
                   root, node_list, cb_file, enc_file, out_byte, bit_count,
                   tampered>>
    /\ UNCHANGED decVars

\* fenc = fopen(enc_fn, "wb")
EncOpenEncoded ==
    /\ pc = "enc_open_enc"
    /\ \E ok \in BOOLEAN :
        IF ok
        THEN /\ enc_file' = fopen_w(enc_file)
             /\ pc' = "enc_pack"
             /\ UNCHANGED <<enc_exit, enc_open_failed>>
        ELSE /\ enc_exit' = 1
             /\ enc_open_failed' = TRUE
             /\ pc' = "enc_done"
             /\ UNCHANGED enc_file
    /\ out_byte' = 0
    /\ bit_count' = 0
    /\ UNCHANGED <<in_file, freq, total_count, nodes, leaf_nodes, heap, i, a, b,
                   root, node_list, cb_file, fin_pos, tampered>>
    /\ UNCHANGED decVars

\* One iteration of the packing loop: one input byte, all bits of its code.
EncPackByte ==
    /\ pc = "enc_pack"
    /\ fin_pos < Len(in_file)
    /\ LET n == leaf_nodes[in_file[fin_pos + 1]]
           st == PackCode([out_byte |-> out_byte, bit_count |-> bit_count,
                           written |-> enc_file], nodes[n].code)
       IN  /\ out_byte' = st.out_byte
           /\ bit_count' = st.bit_count
           /\ enc_file' = st.written
    /\ fin_pos' = fin_pos + 1
    /\ UNCHANGED <<pc, in_file, freq, total_count, nodes, leaf_nodes, heap, i,
                   a, b, root, node_list, cb_file, enc_exit, enc_open_failed,
                   tampered>>
    /\ UNCHANGED decVars

\* EOF of the packing loop: the padded last byte, and return 0.
EncPackFinish ==
    /\ pc = "enc_pack"
    /\ fin_pos = Len(in_file)
    /\ IF bit_count > 0
       THEN /\ out_byte' = ShiftLeft(out_byte, 8 - bit_count)
            /\ enc_file' = Append(enc_file, out_byte')
       ELSE UNCHANGED <<out_byte, enc_file>>
    /\ enc_exit' = 0
    /\ pc' = "enc_done"
    /\ UNCHANGED <<in_file, freq, total_count, nodes, leaf_nodes, heap, i, a, b,
                   root, node_list, cb_file, fin_pos, bit_count,
                   enc_open_failed, tampered>>
    /\ UNCHANGED decVars

EncNext ==
    \/ EncCountInput
    \/ EncEmptyInput
    \/ EncPushLeaf
    \/ EncLeavesDone
    \/ EncPopA
    \/ EncPopB
    \/ EncPushParent
    \/ EncPopRoot
    \/ EncGenerateCodes
    \/ EncWriteCodebook
    \/ EncReopenInput
    \/ EncOpenEncoded
    \/ EncPackByte
    \/ EncPackFinish

\* ------------------------------------------------------- decoder: main

\* The decoder is run on the codebook and payload of a finished encoder run.
EncoderProduced == pc = "enc_done" /\ enc_exit = 0 /\ ~enc_open_failed

DecFail(result) ==
    /\ dec_exit' = 1
    /\ dec_result' = result
    /\ dpc' = "dec_done"

\* fopen(cb_fn, "r") and root = create_node()
DecOpenCodebook ==
    /\ dpc = "dec_start"
    /\ EncoderProduced
    /\ \E ok \in BOOLEAN :
        IF ok
        THEN /\ dnodes' = <<create_node>>
             /\ dpc' = "dec_read_cb"
             /\ UNCHANGED <<dec_exit, dec_result>>
        ELSE /\ DecFail("open_error")
             /\ UNCHANGED dnodes
    /\ fcb_pos' = 0
    /\ UNCHANGED <<rows_parsed, expected_symbols, num_decoded_symbols,
                   fenc_pos, byte, bitidx, cur, bit_position, out_file,
                   status_ok>>
    /\ UNCHANGED <<encVars, enc_file, tampered>>

\* One iteration of the fgets loop.
DecReadRow ==
    /\ dpc = "dec_read_cb"
    /\ fcb_pos < Len(cb_file)
    /\ LET line == fgets(cb_file, fcb_pos)
           symbol == parse_symbol(line)
           q == strchr(line, 1, QUOTE)
           p == IF At(line, q + 1) = COMMA THEN q + 2 ELSE q + 1
           r == sscanf(line, p)
       IN  /\ fcb_pos' = fcb_pos + Len(line)
           /\ IF q # -1 /\ r.n = 4
              THEN /\ dnodes' = insert_code(dnodes, r.code, symbol)
                   /\ expected_symbols' = expected_symbols + r.count
                   /\ rows_parsed' = rows_parsed + 1
              ELSE UNCHANGED <<dnodes, expected_symbols, rows_parsed>>
    /\ UNCHANGED <<dpc, num_decoded_symbols, fenc_pos, byte, bitidx, cur,
                   bit_position, out_file, status_ok, dec_result, dec_exit>>
    /\ UNCHANGED <<encVars, enc_file, tampered>>

\* fgets returns NULL: fclose(fcb), then fopen(enc_fn, "rb")
DecOpenEncoded ==
    /\ dpc = "dec_read_cb"
    /\ fcb_pos >= Len(cb_file)
    /\ \E ok \in BOOLEAN :
        IF ok
        THEN /\ dpc' = "dec_open_out"
             /\ UNCHANGED <<dec_exit, dec_result>>
        ELSE DecFail("open_error")
    /\ fenc_pos' = 0
    /\ UNCHANGED <<dnodes, fcb_pos, rows_parsed, expected_symbols,
                   num_decoded_symbols, byte, bitidx, cur, bit_position,
                   out_file, status_ok>>
    /\ UNCHANGED <<encVars, enc_file, tampered>>

\* fopen(out_fn, "w"), then cur = root and bit_position = 0
DecOpenOutput ==
    /\ dpc = "dec_open_out"
    /\ \E ok \in BOOLEAN :
        IF ok
        THEN /\ out_file' = fopen_w(out_file)
             /\ dpc' = "dec_fread"
             /\ UNCHANGED <<dec_exit, dec_result>>
        ELSE /\ DecFail("open_error")
             /\ UNCHANGED out_file
    /\ cur' = DROOT
    /\ bit_position' = 0
    /\ UNCHANGED <<dnodes, fcb_pos, rows_parsed, expected_symbols,
                   num_decoded_symbols, fenc_pos, byte, bitidx, status_ok>>
    /\ UNCHANGED <<encVars, enc_file, tampered>>

\* The outer loop's test: fread(&byte, 1, 1, fenc) == 1 &&
\* num_decoded_symbols < expected_symbols.  fread runs first, so a byte is
\* consumed even when the count test then ends the loop.
DecFread ==
    /\ dpc = "dec_fread"
    /\ IF fenc_pos < Len(enc_file)
       THEN /\ byte' = enc_file[fenc_pos + 1]
            /\ fenc_pos' = fenc_pos + 1
            /\ dpc' = IF num_decoded_symbols < expected_symbols
                      THEN "dec_bit" ELSE "dec_finish"
       ELSE /\ dpc' = "dec_finish"
            /\ UNCHANGED <<byte, fenc_pos>>
    /\ bitidx' = 7
    /\ UNCHANGED <<dnodes, fcb_pos, rows_parsed, expected_symbols,
                   num_decoded_symbols, cur, bit_position, out_file,
                   status_ok, dec_result, dec_exit>>
    /\ UNCHANGED <<encVars, enc_file, tampered>>

\* The child the walk moves to from node c on this bit.
Child(dn, c, bit) == IF bit = 0 THEN dn[c].left ELSE dn[c].right

\* The inner loop's test without the count.
InnerGuardNoCount(k, decoded, expected) == k >= 0

\* The inner loop's test: b >= 0 && num_decoded_symbols < expected_symbols
InnerGuard(k, decoded, expected) == k >= 0 /\ decoded < expected

\* The inner loop's body with bit_position++ placed after the NULL check.
WalkStepLateCount(dn, c, byt, k, bp) ==
    LET nxt == IF BitOf(byt, k) = 0 THEN dn[c].left ELSE dn[c].right
    IN  [cur |-> nxt, bit_position |-> IF nxt = NULL THEN bp ELSE bp + 1]

\* The head of the inner loop's body: the bit, bit_position++ and the move.
WalkStep(dn, c, byt, k, bp) ==
    [cur |-> Child(dn, c, BitOf(byt, k)), bit_position |-> bp + 1]

\* if (num_decoded_symbols != expected_symbols) status_ok = 0;
FinalStatus(decoded, expected, status) ==
    IF decoded # expected THEN 0 ELSE status

\* A decoder that always returns 0 after the walk.
ExitCodeZero(status) == 0

\* return status_ok ? 0 : 1;
ExitCode(status) == IF status # 0 THEN 0 ELSE 1

\* One iteration of the inner loop, and the test of the next one.
DecBit ==
    /\ dpc = "dec_bit"
    /\ LET step == WalkStep(dnodes, cur, byte, bitidx, bit_position)
           nxt == step.cur
           leaf == nxt # NULL /\ dnodes[nxt].isLeaf = 1
           decoded == IF leaf THEN num_decoded_symbols + 1
                      ELSE num_decoded_symbols
       IN  /\ bit_position' = step.bit_position
           /\ IF nxt = NULL
              THEN /\ cur' = NULL
                   /\ status_ok' = 0
                   /\ DecFail("invalid")
                   /\ UNCHANGED <<out_file, num_decoded_symbols, bitidx>>
              ELSE /\ cur' = IF leaf THEN DROOT ELSE nxt
                   /\ out_file' = IF leaf
                                  THEN Append(out_file, fputc(dnodes[nxt].symbol))
                                  ELSE out_file
                   /\ num_decoded_symbols' = decoded
                   /\ bitidx' = bitidx - 1
                   /\ dpc' = IF InnerGuard(bitidx - 1, decoded, expected_symbols)
                             THEN "dec_bit" ELSE "dec_fread"
                   /\ UNCHANGED <<status_ok, dec_exit, dec_result>>
    /\ UNCHANGED <<dnodes, fcb_pos, rows_parsed, expected_symbols, fenc_pos,
                   byte>>
    /\ UNCHANGED <<encVars, enc_file, tampered>>

\* After the loop: the count check and return status_ok ? 0 : 1
DecFinish ==
    /\ dpc = "dec_finish"
    /\ LET ok == FinalStatus(num_decoded_symbols, expected_symbols, status_ok)
       IN  /\ status_ok' = ok
           /\ dec_exit' = ExitCode(ok)
           /\ dec_result' = IF ok # 0 THEN "ok" ELSE "mismatch"
    /\ dpc' = "dec_done"
    /\ UNCHANGED <<dnodes, fcb_pos, rows_parsed, expected_symbols,
                   num_decoded_symbols, fenc_pos, byte, bitidx, cur,
                   bit_position, out_file>>
    /\ UNCHANGED <<encVars, enc_file, tampered>>

DecNext ==
    \/ DecOpenCodebook
    \/ DecReadRow
    \/ DecOpenEncoded
    \/ DecOpenOutput
    \/ DecFread
    \/ DecBit
    \/ DecFinish

Next == EncNext \/ DecNext

Spec == Init /\ [][Next]_vars

\* ------------------------------------------- a payload that is not the encoder's

\* Longest input file of the runs whose payload is replaced.
MaxTamperLen == 3

\* Longest payload written in place of the encoder's.
MaxPayloadLen == 1

\* Byte values such a payload is made of.
PayloadBytes == {0, 90, 255}

\* Before the decoder starts, enc_fn is given other contents: one bit of the
\* encoder's payload inverted, its last byte dropped, a byte added after it,
\* or an unrelated payload.
Tamper ==
    /\ dpc = "dec_start"
    /\ EncoderProduced
    /\ ~tampered
    /\ \/ \E k \in 1..(8 * Len(enc_file)) : enc_file' = FlipBit(enc_file, k)
       \/ /\ Len(enc_file) > 0
          /\ enc_file' = SubSeq(enc_file, 1, Len(enc_file) - 1)
       \/ \E x \in PayloadBytes : enc_file' = Append(enc_file, x)
       \/ \E f \in SeqsUpTo(PayloadBytes, MaxPayloadLen) :
            /\ f # enc_file
            /\ enc_file' = f
    /\ tampered' = TRUE
    /\ UNCHANGED <<encVars, decVars>>

\* Longest single-byte run among those inputs.
MaxTamperRun == 9

TamperInit ==
    /\ Init
    /\ \/ Len(in_file) <= MaxTamperLen
       \/ Cardinality(Range(in_file)) = 1 /\ Len(in_file) <= MaxTamperRun

TamperNext == Next \/ Tamper

TamperSpec == TamperInit /\ [][TamperNext]_vars

\* ================================================================ claims

\* The leaves of the encoder's tree / of the decode tree.
EncLeaves == Range(leaf_nodes)
DecLeaves == {n \in DOMAIN dnodes : dnodes[n].isLeaf = 1}

IsPrefix(s, t) == Len(s) <= Len(t) /\ SubSeq(t, 1, Len(s)) = s

\* The decode-tree position reached from c along the bits of a code.
RECURSIVE Follow(_, _, _)
Follow(dn, c, code) ==
    IF c = NULL \/ code = <<>> THEN c
    ELSE Follow(dn, Child(dn, c, Head(code) - CHAR0), Tail(code))

\* The decoder ran to its end on the files the encoder wrote, every fopen
\* having succeeded.
HonestDecodeDone ==
    dpc = "dec_done" /\ ~tampered /\ dec_result # "open_error"

\* The codebook has been read to its end.
CodebookRead == dnodes # <<>> /\ dpc # "dec_read_cb"

\* C1: decoding what the encoder wrote for an input X gives back X, and the
\* decoder ends with status ok (exit code 0).
C1_RoundTrip ==
    HonestDecodeDone => out_file = in_file /\ dec_exit = 0 /\ status_ok = 1

\* C2: once the codebook is read, every row the encoder wrote was parsed,
\* each code leads from the decode-tree root to a leaf holding that row's
\* symbol, the decode tree has no other leaf, and expected_symbols is
\* total_count.
C2_DecodeTreeMatches ==
    CodebookRead =>
        /\ rows_parsed = Len(node_list)
        /\ \A n \in EncLeaves :
            LET d == Follow(dnodes, DROOT, nodes[n].code)
            IN  /\ d # NULL
                /\ dnodes[d].isLeaf = 1
                /\ fputc(dnodes[d].symbol) = nodes[n].symbol
        /\ Cardinality(DecLeaves) = Cardinality(EncLeaves)
        /\ expected_symbols = total_count

\* generate_codes has run.
CodesGenerated == root # NULL /\ pc # "enc_codes"

Code(n) == nodes[n].code

\* C3: after the tree is built and generate_codes has run, every leaf has a
\* non-empty code over {0,1}, and no leaf's code is a prefix of (or equal
\* to) another leaf's code.
C3_PrefixFree ==
    CodesGenerated =>
        /\ \A n \in EncLeaves :
            Code(n) # <<>> /\ Range(Code(n)) \subseteq {CHAR0, CHAR1}
        /\ \A m \in EncLeaves, n \in EncLeaves :
            m # n => ~IsPrefix(Code(m), Code(n))

C3_Witness ==
    /\ CodesGenerated
    /\ Cardinality(EncLeaves) >= 3
    /\ \E m \in EncLeaves, n \in EncLeaves : Len(Code(m)) < Len(Code(n))

\* C4: the decoder's exit code is 0 exactly when the decode walk ran to its
\* end with num_decoded_symbols = expected_symbols; it is 1 after a failed
\* fopen, after an invalid codeword, and after a count mismatch.
C4_DecoderExit ==
    dpc = "dec_done" =>
        /\ dec_exit \in {0, 1}
        /\ dec_exit = 0 <=>
            /\ dec_result \notin {"open_error", "invalid"}
            /\ num_decoded_symbols = expected_symbols
        /\ dec_result \in {"open_error", "invalid", "mismatch"} => dec_exit = 1

C4_Witness ==
    /\ dpc = "dec_done"
    /\ dec_result = "mismatch"
    /\ num_decoded_symbols > 0
    /\ dec_exit = 1

\* C5: the encoder's exit code is 1 whenever one of its fopen calls failed.
C5_EncoderExit ==
    pc = "enc_done" /\ enc_open_failed => enc_exit = 1

\* C6: the decode walk never moves from an absent position; it ends
\* Complete (counts equal), Truncated (payload exhausted first) or Invalid,
\* and Invalid is entered on a bit whose child is absent, with bit_position
\* the 1-based index of that bit in the payload.
C6_WalkSafe ==
    /\ [](dpc = "dec_bit" => cur # NULL)
    /\ [](dpc = "dec_done" /\ dec_result # "open_error" =>
            \/ dec_result = "ok" /\ num_decoded_symbols = expected_symbols
            \/ /\ dec_result = "mismatch"
               /\ num_decoded_symbols < expected_symbols
               /\ fenc_pos = Len(enc_file)
            \/ dec_result = "invalid" /\ cur = NULL)
    /\ [][dec_result # "invalid" /\ dec_result' = "invalid" =>
            /\ cur # NULL
            /\ Child(dnodes, cur, BitOf(enc_file[fenc_pos], bitidx)) = NULL
            /\ bit_position' = 8 * (fenc_pos - 1) + (8 - bitidx)]_vars

C6_Witness ==
    /\ dec_result = "invalid"
    /\ tampered
    /\ bit_position > 8
    /\ num_decoded_symbols > 0

\* C7: for a zero-length input the encoder builds no tree and leaves a
\* zero-length codebook and a zero-length payload; the decoder, run on that
\* pair, ends with expected_symbols = 0, num_decoded_symbols = 0, a
\* zero-length output and exit code 0.
C7_EmptyInput ==
    Len(in_file) = 0 =>
        /\ EncoderProduced =>
            /\ nodes = <<>>
            /\ root = NULL
            /\ cb_file = <<>>
            /\ enc_file = <<>>
        /\ HonestDecodeDone =>
            /\ expected_symbols = 0
            /\ num_decoded_symbols = 0
            /\ out_file = <<>>
            /\ status_ok = 1
            /\ dec_exit = 0

C7_Witness == Len(in_file) = 0 /\ HonestDecodeDone

SingleSymbolInput == Cardinality(Range(in_file)) = 1

\* C8: for an input that repeats one byte value count times, the codebook
\* is the single row of that symbol with code "0", and the payload is
\* ceil(count/8) bytes, all 0x00.
C8_SingleSymbol ==
    SingleSymbolInput /\ EncoderProduced =>
        /\ Len(node_list) = 1
        /\ Code(node_list[1]) = <<CHAR0>>
        /\ cb_file = print_symbol(in_file[1]) \o <<COMMA>>
                     \o FormatLong(Len(in_file))
                     \o <<COMMA, FLOATFIELD, COMMA, QUOTE, CHAR0, QUOTE, COMMA,
                          FLOATFIELD, NEWLINE>>
        /\ Len(enc_file) = (Len(in_file) + 7) \div 8
        /\ \A k \in DOMAIN enc_file : enc_file[k] = 0

C8_Witness ==
    SingleSymbolInput /\ EncoderProduced /\ Len(in_file) > 8 /\ Len(enc_file) = 2

WalkStates == {"dec_fread", "dec_bit", "dec_finish", "dec_done"}

\* C9: num_decoded_symbols never exceeds expected_symbols, and once the walk
\* has decoded expected_symbols symbols no further bit is interpreted and no
\* further symbol is written.
C9_StopsAtExpected ==
    /\ [](num_decoded_symbols <= expected_symbols)
    /\ [][num_decoded_symbols = expected_symbols /\ dpc \in WalkStates =>
            (UNCHANGED <<num_decoded_symbols, out_file, bit_position>>)]_vars

\* The walk ended Complete with payload bits left uninterpreted.
C9_Witness ==
    /\ dpc = "dec_done"
    /\ dec_result = "ok"
    /\ expected_symbols > 0
    /\ bit_position < 8 * Len(enc_file) - 8

HeapOrdered ==
    \A k \in 2..heapSize : Count(nodes, heap[k \div 2]) <= Count(nodes, heap[k])

\* C10: heap[1..heapSize] is a min-heap on count after every heap_push and
\* heap_pop of the tree builder; a popped node's count is at most the count
\* of every node still queued, so a merge combines the two minimum-count
\* nodes; an internal node's count is the sum of its children's; the final
\* root's count is total_count.
C10_MinHeap ==
    /\ HeapOrdered
    /\ pc = "enc_pop_b" =>
        \A k \in 1..heapSize : Count(nodes, a) <= Count(nodes, heap[k])
    /\ pc = "enc_parent" =>
        /\ Count(nodes, a) <= Count(nodes, b)
        /\ \A k \in 1..heapSize : Count(nodes, b) <= Count(nodes, heap[k])
    /\ \A n \in DOMAIN nodes :
        ~IsLeaf(nodes, n) =>
            nodes[n].count = Count(nodes, nodes[n].left) + Count(nodes, nodes[n].right)
    /\ root # NULL => Count(nodes, root) = total_count

C10_Witness ==
    /\ pc = "enc_parent"
    /\ heapSize >= 2
    /\ Count(nodes, a) < Count(nodes, heap[heapSize])

\* Nodes are malloc'ed right before they are pushed, so a node pushed
\* earlier has the smaller arena index.
PushedEarlier(m, n) == m < n

\* Node m is still queued, has the count of n and was pushed before n.
EarlierTieQueued(n) ==
    \E k \in 1..heapSize :
        PushedEarlier(heap[k], n) /\ Count(nodes, heap[k]) = Count(nodes, n)

\* Leaves were pushed in ascending symbol order.
LeavesAscending ==
    \A m \in EncLeaves, n \in EncLeaves :
        PushedEarlier(m, n) => nodes[m].symbol < nodes[n].symbol

\* No parent node has been built yet: the heap holds leaves only.
NoParentYet == Len(nodes) = Cardinality(EncLeaves)

\* C11 as stated: leaves are pushed in ascending symbol order, and whenever
\* heap_pop returns a node, no node of the same count that was pushed
\* earlier is still queued.
C11_TieFirstInserted ==
    /\ LeavesAscending
    /\ pc = "enc_pop_b" => ~EarlierTieQueued(a)
    /\ pc = "enc_parent" => ~EarlierTieQueued(b)

\* C11 as amended: leaves are pushed in ascending symbol order, and the
\* first heap_pop after the leaves are pushed returns the earliest-pushed
\* node of minimum count (the lowest symbol among the least frequent).
C11_FirstPopFirstInserted ==
    /\ LeavesAscending
    /\ pc = "enc_pop_b" /\ NoParentYet =>
        /\ ~EarlierTieQueued(a)
        /\ \A k \in 1..heapSize : Count(nodes, a) <= Count(nodes, heap[k])
        /\ \A n \in EncLeaves \ {a} :
            Count(nodes, n) = Count(nodes, a) => nodes[a].symbol < nodes[n].symbol

\* The first pop, taken among three or more leaves of the minimum count.
C11_Witness ==
    /\ pc = "enc_pop_b"
    /\ NoParentYet
    /\ Cardinality({n \in EncLeaves : Count(nodes, n) = Count(nodes, a)}) >= 3
    /\ \E n \in EncLeaves : Count(nodes, n) > Count(nodes, a)

\* The code bits of the input bytes from position k on, concatenated.
RECURSIVE CodeBits(_)
CodeBits(k) ==
    IF k > Len(in_file) THEN <<>>
    ELSE Code(leaf_nodes[in_file[k]]) \o CodeBits(k + 1)

\* C12: for a non-empty input whose codes add up to B bits, the payload is
\* ceil(B/8) bytes; bit i (0-based) of the concatenated codes is bit
\* 7 - (i mod 8) of byte i div 8; and when B mod 8 is not 0 the low
\* 8 - (B mod 8) bits of the last byte are 0.
C12_BitPacking ==
    Len(in_file) > 0 /\ EncoderProduced =>
        LET bits == CodeBits(1)
            B == Len(bits)
        IN  /\ Len(enc_file) = (B + 7) \div 8
            /\ \A k \in DOMAIN enc_file : enc_file[k] \in 0..255
            /\ \A j \in 0..(B - 1) :
                BitOf(enc_file[(j \div 8) + 1], 7 - (j % 8)) = bits[j + 1] - CHAR0
            /\ B % 8 # 0 =>
                \A k \in 0..(7 - (B % 8)) : BitOf(enc_file[Len(enc_file)], k) = 0

\* A payload of two bytes, the last one partial, holding codes of different
\* lengths with a 1 bit among the last byte's code bits.
C12_Witness ==
    /\ Len(in_file) > 0
    /\ EncoderProduced
    /\ Len(CodeBits(1)) > 8
    /\ Len(CodeBits(1)) % 8 # 0
    /\ enc_file[Len(enc_file)] # 0
    /\ \E m \in EncLeaves, n \in EncLeaves : Len(Code(m)) < Len(Code(n))

====
